---- MODULE Spec2Model ----
(***************************************************************************)
(* A model of scruffy's config.py: ConfigNode (a view over a path in a     *)
(* root's nested dict/list tree) and update_dict (the recursive merge).    *)
(*                                                                         *)
(* Python objects live in a heap: dicts and lists are heap objects with an *)
(* address, so that two names for one object (aliasing) are visible.       *)
(* Strings are sequences of one-character strings, so that split('.') and  *)
(* int() are computed rather than assumed.                                 *)
(***************************************************************************)
EXTENDS Integers, Sequences, FiniteSets, TLC

VARIABLES
    heap,       \* the Python heap: address -> dict or list object
    data,       \* the root's _data (a value: a reference into the heap)
    defaults,   \* the root's _defaults
    otherData,  \* the _data of a second configuration root
    held,       \* references the caller still holds to structures it passed in
    target,     \* update_dict's first argument (merge specification only)
    source,     \* update_dict's second argument (merge specification only)
    made,       \* what the defaults object held when the root was constructed
    hist,       \* the operations performed so far, with their outcomes
    pre,        \* the heap as it was before the last operation
    pc          \* the phase of the run

vars == <<heap, data, defaults, otherData, held, target, source, made, hist, pre, pc>>

(***************************************************************************)
(* Bounds                                                                  *)
(***************************************************************************)
MaxPathLen == 3     \* segments per dotted path in the access specifications
MaxOps == 2         \* operations per run in the lifecycle specification

(***************************************************************************)
(* Values.  A scalar is itself; a dict or a list is a reference.           *)
(***************************************************************************)
NoneV == [t |-> "none"]
IntV(n) == [t |-> "int", n |-> n]
StrV(cs) == [t |-> "str", cs |-> cs]
Ref(a) == [t |-> "ref", a |-> a]
\* The _data of a child view itself: ConfigNode.__init__ gives every view a
\* _data of its own, deepcopy({}), which no other object refers to.
OwnData == [t |-> "own"]

DictO(ents) == [t |-> "dict", ents |-> ents]    \* entries in insertion order
ListO(els) == [t |-> "list", els |-> els]
Ent(k, v) == [k |-> k, v |-> v]

IsDict(h, v) == v.t = "own" \/ (v.t = "ref" /\ h[v.a].t = "dict")
IsList(h, v) == v.t = "ref" /\ h[v.a].t = "list"

\* The object a value denotes.
Obj(h, v) == IF v.t = "own" THEN DictO(<<>>) ELSE h[v.a]

DictKeys(o) == {o.ents[i].k : i \in 1..Len(o.ents)}
DictHas(o, k) == k \in DictKeys(o)
DictGet(o, k) == o.ents[CHOOSE i \in 1..Len(o.ents) : o.ents[i].k = k].v
DictPut(o, k, v) ==
    IF DictHas(o, k)
    THEN DictO([i \in 1..Len(o.ents) |->
                  IF o.ents[i].k = k THEN Ent(k, v) ELSE o.ents[i]])
    ELSE DictO(Append(o.ents, Ent(k, v)))

Ok(v) == [err |-> "none", val |-> v]
Raise(e) == [err |-> e, val |-> NoneV]

(***************************************************************************)
(* Strings: str.split('.') and int()                                       *)
(***************************************************************************)
Digits == <<"0", "1", "2", "3", "4", "5", "6", "7", "8", "9">>
IsDigit(c) == \E d \in 1..Len(Digits) : Digits[d] = c
DigitVal(c) == (CHOOSE d \in 1..Len(Digits) : Digits[d] = c) - 1

RECURSIVE ParseInt(_)
ParseInt(cs) ==
    IF Len(cs) = 1 THEN DigitVal(cs[1])
    ELSE ParseInt(SubSeq(cs, 1, Len(cs) - 1)) * Len(Digits) + DigitVal(cs[Len(cs)])

\* try: key = int(key) / except: pass.  Of the strings the model draws, int()
\* accepts exactly the non-empty runs of decimal digits.
ParseKey(seg) ==
    IF seg # <<>> /\ \A i \in 1..Len(seg) : IsDigit(seg[i])
    THEN IntV(ParseInt(seg))
    ELSE StrV(seg)

RECURSIVE Split(_)
Split(s) ==
    IF \E i \in 1..Len(s) : s[i] = "."
    THEN LET i == CHOOSE j \in 1..Len(s) :
                      s[j] = "." /\ \A l \in 1..(j - 1) : s[l] # "."
         IN <<SubSeq(s, 1, i - 1)>> \o Split(SubSeq(s, i + 1, Len(s)))
    ELSE <<s>>

\* '{}.{}'.format(self._path, path) when the view has a path, else path.
Child(selfPath, path) ==
    IF selfPath # <<>> THEN selfPath \o <<".">> \o path ELSE path

(***************************************************************************)
(* Python's subscription, membership and item assignment                   *)
(***************************************************************************)
\* node[key]
Subscript(h, node, key) ==
    IF IsDict(h, node) THEN
        IF DictHas(Obj(h, node), key) THEN Ok(DictGet(Obj(h, node), key))
        ELSE Raise("KeyError")
    ELSE IF IsList(h, node) THEN
        IF key.t # "int" THEN Raise("TypeError")
        ELSE IF key.n < Len(h[node.a].els) THEN Ok(h[node.a].els[key.n + 1])
        ELSE Raise("IndexError")
    ELSE IF node.t = "str" THEN
        IF key.t # "int" THEN Raise("TypeError")
        ELSE IF key.n < Len(node.cs) THEN Ok(StrV(<<node.cs[key.n + 1]>>))
        ELSE Raise("IndexError")
    ELSE Raise("TypeError")

IsSubstring(x, y) ==
    \E i \in 0..(Len(y) - Len(x)) : SubSeq(y, i + 1, i + Len(x)) = x

\* key in node
Contains(h, node, key) ==
    IF IsDict(h, node) THEN Ok(DictHas(Obj(h, node), key))
    ELSE IF IsList(h, node) THEN
        Ok(\E i \in 1..Len(h[node.a].els) : h[node.a].els[i] = key)
    ELSE IF node.t = "str" THEN
        IF key.t = "str" THEN Ok(IsSubstring(key.cs, node.cs))
        ELSE Raise("TypeError")
    ELSE Raise("TypeError")

\* container[key] = value
StoreSubscript(h, container, key, value) ==
    IF container.t = "ref" /\ h[container.a].t = "dict" THEN
        [err |-> "none",
         heap |-> [h EXCEPT ![container.a] = DictPut(@, key, value)]]
    ELSE IF IsList(h, container) THEN
        IF key.t # "int" THEN [err |-> "TypeError", heap |-> h]
        ELSE IF key.n < Len(h[container.a].els)
        THEN [err |-> "none",
              heap |-> [h EXCEPT ![container.a].els[key.n + 1] = value]]
        ELSE [err |-> "IndexError", heap |-> h]
    ELSE [err |-> "TypeError", heap |-> h]

(***************************************************************************)
(* ConfigNode._resolve_path                                                *)
(***************************************************************************)
\* "If the next level doesn't exist, create it" (the create branch).
Vivify(h, node, key) ==
    IF node.t = "ref" /\ h[node.a].t = "dict" /\ ~DictHas(h[node.a], key)
    THEN \* node[key] = {}
         Append([h EXCEPT ![node.a] = DictPut(@, key, Ref(Len(h) + 1))],
                DictO(<<>>))
    ELSE IF IsList(h, node) /\ key.t = "int" /\ Len(h[node.a].els) < key.n
    THEN \* node.append([None for i in range(key-len(node))])
         Append([h EXCEPT ![node.a].els = Append(@, Ref(Len(h) + 1))],
                ListO([i \in 1..(key.n - Len(h[node.a].els)) |-> NoneV]))
    ELSE h

\* What _resolve_path hands back: the error raised if any, the heap as the
\* walk left it, and (nodes[-1], key).
Resolved(e, h, node, key) ==
    [err |-> e, heap |-> h, container |-> node, last |-> key]

\* The while loop over key_path, one iteration per call of Traverse: the key
\* is popped and parsed, the create branch runs (Descend), node[key] is
\* looked up (Advance) and the loop goes on with what it found.
RECURSIVE Traverse(_, _, _, _), Descend(_, _, _, _, _), Advance(_, _, _, _, _, _)
Advance(h, node, key, got, key_path, create) ==
    IF got.err = "TypeError"
    THEN Resolved(IF key.t = "int" THEN "IndexError" ELSE "KeyError", h, node, key)
    ELSE IF got.err # "none" THEN Resolved(got.err, h, node, key)
    ELSE IF Len(key_path) = 1 THEN Resolved("none", h, node, key)
    ELSE Traverse(h, got.val, Tail(key_path), create)
Descend(h, node, key, key_path, create) ==
    Advance(h, node, key, Subscript(h, node, key), key_path, create)
Traverse(h, node, key_path, create) ==
    Descend(IF create THEN Vivify(h, node, ParseKey(Head(key_path))) ELSE h,
            node, ParseKey(Head(key_path)), key_path, create)

\* rootData is self._root._data.
ResolvePath(h, rootData, path, create) ==
    Traverse(h, rootData, Split(path), create)

(***************************************************************************)
(* ConfigNode._get_value, __getitem__, __setitem__                         *)
(***************************************************************************)
\* The value of the view with the given path; a path that is falsy (None for
\* the root, '' for a view) yields the object's own _data.
\* A read that lets KeyError and IndexError through: what C6 excludes.
Uncaught(v) == v

\* except KeyError: return None / except IndexError: return None
Caught(v) == IF v.err \in {"KeyError", "IndexError"} THEN Ok(NoneV) ELSE v

\* return container[last], r what _resolve_path() returned or raised
ValueAt(h, r) ==
    IF r.err # "none" THEN Caught(Raise(r.err))
    ELSE Caught(Subscript(h, r.container, r.last))

GetValue(h, rootData, isRoot, path) ==
    IF path # <<>> THEN ValueAt(h, ResolvePath(h, rootData, path, FALSE))
    ELSE IF isRoot THEN Ok(rootData) ELSE Ok(OwnData)

\* root[key]: the child view when its value is a dict, a list or None, else
\* the value itself.
Returned(h, v) ==
    IF v.err # "none" THEN [err |-> v.err, kind |-> "raise", val |-> NoneV]
    ELSE IF IsDict(h, v.val) \/ IsList(h, v.val) \/ v.val.t = "none"
    THEN [err |-> "none", kind |-> "view", val |-> v.val]
    ELSE [err |-> "none", kind |-> "value", val |-> v.val]
GetItem(h, rootData, key) ==
    Returned(h, GetValue(h, rootData, FALSE, Child(<<>>, key)))

\* A write that walks and creates but stores nothing: what C5 excludes.
AssignDropped(r, value) == [err |-> r.err, heap |-> r.heap]

\* root[key] = value
Assign(r, value) ==
    IF r.err # "none" THEN [err |-> r.err, heap |-> r.heap]
    ELSE StoreSubscript(r.heap, r.container, r.last, value)
SetItem(h, rootData, key, value) ==
    Assign(ResolvePath(h, rootData, Child(<<>>, key), TRUE), value)

(***************************************************************************)
(* update_dict                                                             *)
(***************************************************************************)
\* The branch condition of update_dict's loop body, for the item (k, v) of
\* source: isinstance(v, dict) and k in target and isinstance(source[k], dict).
\* `and` short-circuits, so `k in target` is evaluated (and may raise) only
\* when v is a dict; source[k] is v.
Recurses(h, tgt, k, v) ==
    IF ~IsDict(h, v) THEN Ok(FALSE)
    ELSE IF Contains(h, tgt, k).err # "none" THEN Contains(h, tgt, k)
    ELSE Ok(Contains(h, tgt, k).val /\ IsDict(h, v))

\* for k,v in source.items(): the iterator is live, and raises RuntimeError
\* when the dict it runs over has changed size since the loop began (n).
RECURSIVE UpdateDict(_, _, _), UpdateDictLoop(_, _, _, _, _),
          UpdateDictItem(_, _, _, _), UpdateDictInto(_, _, _),
          UpdateDictNext(_, _, _, _, _)
\* update_dict(target[k], v), sub what target[k] gave
UpdateDictInto(h, sub, v) ==
    IF sub.err # "none" THEN [err |-> sub.err, heap |-> h]
    ELSE UpdateDict(h, sub.val, v)
\* the loop body for the item (k, v)
UpdateDictItem(h, tgt, e, rec) ==
    IF rec.err # "none" THEN [err |-> rec.err, heap |-> h]
    ELSE IF rec.val THEN UpdateDictInto(h, Subscript(h, tgt, e.k), e.v)
    ELSE StoreSubscript(h, tgt, e.k, e.v)
UpdateDictNext(body, tgt, src, i, n) ==
    IF body.err # "none" THEN body
    ELSE UpdateDictLoop(body.heap, tgt, src, i + 1, n)
UpdateDictLoop(h, tgt, src, i, n) ==
    IF Len(Obj(h, src).ents) # n THEN [err |-> "RuntimeError", heap |-> h]
    ELSE IF i > n THEN [err |-> "none", heap |-> h]
    ELSE UpdateDictNext(
             UpdateDictItem(h, tgt, Obj(h, src).ents[i],
                            Recurses(h, tgt, Obj(h, src).ents[i].k,
                                     Obj(h, src).ents[i].v)),
             tgt, src, i, n)

UpdateDict(h, tgt, src) ==
    IF ~IsDict(h, src) THEN [err |-> "AttributeError", heap |-> h]
    ELSE UpdateDictLoop(h, tgt, src, 1, Len(Obj(h, src).ents))

(***************************************************************************)
(* copy.deepcopy, and building a caller's literal in the heap              *)
(***************************************************************************)
Kids(o) == IF o.t = "dict" THEN [i \in 1..Len(o.ents) |-> o.ents[i].v] ELSE o.els
WithKids(o, vs) ==
    IF o.t = "dict" THEN DictO([i \in 1..Len(o.ents) |-> Ent(o.ents[i].k, vs[i])])
    ELSE ListO(vs)

\* The structures copied here are trees (no object is reachable twice), so
\* deepcopy's memo never hits.
\* A new object like o with the children vs, allocated in the heap.
Alloc(kids, o) ==
    [heap |-> Append(kids.heap, WithKids(o, kids.vals)),
     val |-> Ref(Len(kids.heap) + 1)]
Cons(first, rest) == [heap |-> rest.heap, vals |-> <<first.val>> \o rest.vals]

RECURSIVE DeepCopy(_, _), DeepCopyAll(_, _), DeepCopyRest(_, _)
DeepCopyRest(first, vs) == Cons(first, DeepCopyAll(first.heap, vs))
DeepCopyAll(h, vs) ==
    IF vs = <<>> THEN [heap |-> h, vals |-> <<>>]
    ELSE DeepCopyRest(DeepCopy(h, Head(vs)), Tail(vs))
DeepCopy(h, v) ==
    IF v.t # "ref" THEN [heap |-> h, val |-> v]
    ELSE Alloc(DeepCopyAll(h, Kids(h[v.a])), h[v.a])

\* A literal (a dict or list display with its children inline) evaluated by
\* the caller: every display allocates a new object.
RECURSIVE Load(_, _), LoadAll(_, _), LoadRest(_, _)
LoadRest(first, ts) == Cons(first, LoadAll(first.heap, ts))
LoadAll(h, ts) ==
    IF ts = <<>> THEN [heap |-> h, vals |-> <<>>]
    ELSE LoadRest(Load(h, Head(ts)), Tail(ts))
Load(h, tree) ==
    IF tree.t \notin {"dict", "list"} THEN [heap |-> h, val |-> tree]
    ELSE Alloc(LoadAll(h, Kids(tree)), tree)

(***************************************************************************)
(* ConfigNode.update, reset, __init__                                      *)
(***************************************************************************)
\* A loop over the options that stops after the first: what C7 excludes.
ApplyFirst(s, rootData, options) == s

\* for key in options: self[key] = options[key]
RECURSIVE ApplyOptions(_, _, _), ApplyRest(_, _, _)
ApplyRest(s, rootData, options) ==
    IF s.err # "none" THEN s ELSE ApplyOptions(s.heap, rootData, options)
ApplyOptions(h, rootData, options) ==
    IF options = <<>> THEN [err |-> "none", heap |-> h]
    ELSE ApplyRest(SetItem(h, rootData, Head(options).k, Head(options).v),
                   rootData, Tail(options))

\* update(data, options) on the root; dataVal is data, already replaced by
\* data._get_value() when data is a view.
Merged(o, rootData, dataVal) ==
    IF o.err # "none" THEN o
    ELSE UpdateDict(o.heap, GetValue(o.heap, rootData, TRUE, <<>>).val, dataVal)
Update(h, rootData, dataVal, options) ==
    Merged(ApplyOptions(h, rootData, options), rootData, dataVal)

\* A reset that takes the defaults themselves, not a copy: what C3 excludes.
ResetShared(h, dflt) == [heap |-> h, val |-> dflt]

\* self._data = copy.deepcopy(self._defaults)
Reset(h, dflt) == DeepCopy(h, dflt)

\* ConfigNode(data=dataVal, defaults=dflt) for a root: the heap it leaves, and
\* the new root's _data (its _defaults is dflt itself).
Built(c, u) == [err |-> u.err, heap |-> u.heap, val |-> c.val]
Updated(c, dataVal) == Built(c, Update(c.heap, c.val, dataVal, <<>>))
Construct(h, dataVal, dflt) == Updated(Reset(h, dflt), dataVal)

(***************************************************************************)
(* Observation: the nested value a reference denotes, as == compares it    *)
(* (dicts by their key/value pairs whatever the order, lists in order).    *)
(***************************************************************************)
RECURSIVE Snapshot(_, _)
Snapshot(h, v) ==
    IF v.t = "own" THEN [t |-> "dict", m |-> <<>>]
    ELSE IF v.t # "ref" THEN v
    ELSE IF h[v.a].t = "dict"
    THEN [t |-> "dict",
          m |-> [k \in DictKeys(h[v.a]) |-> Snapshot(h, DictGet(h[v.a], k))]]
    ELSE [t |-> "list",
          els |-> [i \in 1..Len(h[v.a].els) |-> Snapshot(h, h[v.a].els[i])]]

\* The same for a literal.
SnapshotOf(l) == Snapshot(l.heap, l.val)
Value(tree) == SnapshotOf(Load(<<>>, tree))

\* The addresses of the objects reachable from a value.
RECURSIVE Reach(_, _)
Reach(h, v) ==
    IF v.t # "ref" THEN {}
    ELSE {v.a} \cup UNION {Reach(h, Kids(h[v.a])[i]) : i \in 1..Len(Kids(h[v.a]))}

(***************************************************************************)
(* Inputs                                                                  *)
(***************************************************************************)
Str(c) == StrV(<<c>>)
Hi == StrV(<<"h", "i">>)

Segs == {<<"a">>, <<"b">>, <<"1">>, <<"2">>}

RECURSIVE Join(_)
Join(segs) ==
    IF Len(segs) = 1 THEN segs[1] ELSE segs[1] \o <<".">> \o Join(Tail(segs))

\* The dotted path of one-character segments, Path(<<"a", "b">>) = 'a.b'.
Path(cs) == Join([i \in 1..Len(cs) |-> <<cs[i]>>])

\* The dotted paths of 1..n segments.
Paths(n) == {Join(ss) : ss \in UNION {[1..k -> Segs] : k \in 1..n}}

\* Values a caller assigns: a scalar and a new, empty dict.
Vals == {IntV(7), DictO(<<>>)}

\* What sits under a key of the trees a root is built from.
Inner ==
    {IntV(5), Hi, NoneV,
     DictO(<<>>),
     DictO(<<Ent(Str("b"), IntV(6))>>),
     DictO(<<Ent(Str("1"), IntV(6))>>),
     ListO(<<>>),
     ListO(<<IntV(6)>>),
     ListO(<<IntV(6), DictO(<<Ent(Str("b"), IntV(8))>>)>>)}

AccessTrees ==
    {DictO(<<>>)}
    \cup {DictO(<<Ent(Str("a"), x)>>) : x \in Inner}
    \cup {DictO(<<Ent(Str("a"), DictO(<<Ent(Str("b"), x)>>))>>) : x \in Inner}
    \cup {DictO(<<Ent(Str("1"), x), Ent(Str("b"), IntV(4))>>) : x \in Inner}

\* The objects Python creates once for the default arguments data={} and
\* defaults={} of __init__ and data={} of update.
DefaultArgs == <<DictO(<<>>), DictO(<<>>), DictO(<<>>)>>
InitData == Ref(1)
InitDefaults == Ref(2)
UpdateData == Ref(3)

(***************************************************************************)
(* Actions: one per operation                                              *)
(***************************************************************************)
\* The record of an operation: what was called with what, what it raised and
\* returned, and the value of the root's tree (or of target) before it.
Done(op, key, arg, opts, err, res, was) ==
    [op |-> op, key |-> key, arg |-> arg, opts |-> opts, err |-> err,
     res |-> res, was |-> was]
NoRes == [kind |-> "none", val |-> NoneV]
Last == hist[Len(hist)]

\* v = root[key]
GetItemAct(P) ==
    \E key \in P :
        LET g == GetItem(heap, data, key)
        IN  /\ hist' = Append(hist, Done("getitem", key, NoneV, <<>>, g.err,
                                         [kind |-> g.kind, val |-> g.val],
                                         Snapshot(heap, data)))
            /\ pre' = heap
            /\ UNCHANGED <<heap, data, defaults, otherData, held, target, source, made>>

\* root[key] = value, the value a scalar or a structure the caller builds
SetItemAct(P, V) ==
    \E key \in P, tv \in V :
        LET l == Load(heap, tv)
            s == SetItem(l.heap, data, key, l.val)
        IN  /\ heap' = s.heap
            /\ pre' = l.heap
            /\ hist' = Append(hist, Done("setitem", key, l.val, <<>>, s.err, NoRes,
                                         Snapshot(heap, data)))
            /\ UNCHANGED <<data, defaults, otherData, held, target, source, made>>

\* root.update(data=D), D a structure the caller builds and keeps
UpdateDataAct(T) ==
    \E tv \in T :
        LET l == Load(heap, tv)
            u == Update(l.heap, data, l.val, <<>>)
        IN  /\ heap' = u.heap
            /\ pre' = l.heap
            /\ held' = Append(held, l.val)
            /\ hist' = Append(hist, Done("update", <<>>, l.val, <<>>, u.err, NoRes,
                                         Snapshot(heap, data)))
            /\ UNCHANGED <<data, defaults, otherData, target, source, made>>

\* root.update(options=O), O the (path, value) pairs in the dict's order
UpdateOptionsAct(OS) ==
    \E opts \in OS :
        LET u == Update(heap, data, UpdateData, opts)
        IN  /\ heap' = u.heap
            /\ pre' = heap
            /\ hist' = Append(hist, Done("options", <<>>, NoneV, opts, u.err, NoRes,
                                         Snapshot(heap, data)))
            /\ UNCHANGED <<data, defaults, otherData, held, target, source, made>>

\* root.update(data=other[key]): what other[key] returns is a view or a
\* scalar; update replaces a view by its _get_value().
UpdateViewAct(P) ==
    \E key \in P :
        LET g == GetItem(heap, otherData, key)
            d == IF g.kind = "view"
                 THEN GetValue(heap, otherData, FALSE, Child(<<>>, key)).val
                 ELSE g.val
            u == Update(heap, data, d, <<>>)
        IN  /\ heap' = u.heap
            /\ pre' = heap
            /\ hist' = Append(hist, Done("view", key, d, <<>>, u.err, NoRes,
                                         Snapshot(heap, data)))
            /\ UNCHANGED <<data, defaults, otherData, held, target, source, made>>

\* root.reset()
ResetAct ==
    LET r == Reset(heap, defaults)
    IN  /\ heap' = r.heap
        /\ data' = r.val
        /\ pre' = heap
        /\ hist' = Append(hist, Done("reset", <<>>, NoneV, <<>>, "none", NoRes,
                                         Snapshot(heap, data)))
        /\ UNCHANGED <<defaults, otherData, held, target, source, made>>

\* update_dict(target, source)
MergeAct ==
    LET u == UpdateDict(heap, target, source)
    IN  /\ heap' = u.heap
        /\ pre' = heap
        /\ hist' = Append(hist, Done("merge", <<>>, NoneV, <<>>, u.err, NoRes,
                                         Snapshot(heap, target)))
        /\ UNCHANGED <<data, defaults, otherData, held, target, source, made>>

(***************************************************************************)
(* Specification Spec: the life of a root.  ConfigNode(data=D, defaults=F) *)
(* beside a second root, then reads, writes, updates and resets.           *)
(***************************************************************************)
DefaultTrees ==
    {DictO(<<>>),
     DictO(<<Ent(Str("a"), IntV(1))>>),
     DictO(<<Ent(Str("a"), DictO(<<Ent(Str("b"), IntV(1))>>))>>)}

DataTrees ==
    {DictO(<<>>),
     DictO(<<Ent(Str("a"), IntV(2)), Ent(Str("b"), IntV(3))>>),
     DictO(<<Ent(Str("a"), DictO(<<Ent(Str("b"), IntV(2))>>))>>)}

\* The data the second root is built from.
OtherTree ==
    DictO(<<Ent(Str("a"), DictO(<<Ent(Str("b"), DictO(<<Ent(Str("a"), IntV(4))>>))>>))>>)

LifePaths == {Path(<<"a">>), Path(<<"a", "b">>), Path(<<"b", "a">>)}
LifeVals == {IntV(7), DictO(<<>>)}
LifeOptions ==
    {<<Ent(Path(<<"a", "b">>), IntV(7))>>,
     <<Ent(Path(<<"b">>), IntV(7)), Ent(Path(<<"a", "b">>), IntV(8))>>}
ViewPaths == {Path(<<"a">>), Path(<<"a", "b", "a">>)}

\* root = ConfigNode(data=d, defaults=f); other = ConfigNode(data=OtherTree)
Init ==
    \E f \in DefaultTrees, d \in DataTrees :
        LET lf == Load(DefaultArgs, f)
            ld == Load(lf.heap, d)
            c == Construct(ld.heap, ld.val, lf.val)
            lo == Load(c.heap, OtherTree)
            o == Construct(lo.heap, lo.val, InitDefaults)
        IN  /\ c.err = "none"
            /\ heap = o.heap
            /\ data = c.val
            /\ defaults = lf.val
            /\ otherData = o.val
            /\ held = <<ld.val>>
            /\ target = NoneV
            /\ source = NoneV
            /\ made = Value(f)
            /\ hist = <<>>
            /\ pre = o.heap
            /\ pc = "run"

Running == pc = "run" /\ Len(hist) < MaxOps

Read == Running /\ GetItemAct(LifePaths) /\ pc' = pc
Write == Running /\ SetItemAct(LifePaths, LifeVals) /\ pc' = pc
UpdateWithData == Running /\ UpdateDataAct(DataTrees) /\ pc' = pc
UpdateWithOptions == Running /\ UpdateOptionsAct(LifeOptions) /\ pc' = pc
UpdateWithView == Running /\ UpdateViewAct(ViewPaths) /\ pc' = pc
ResetRoot == Running /\ ResetAct /\ pc' = pc

Next ==
    \/ Read
    \/ Write
    \/ UpdateWithData
    \/ UpdateWithOptions
    \/ UpdateWithView
    \/ ResetRoot

Spec == Init /\ [][Next]_vars

(***************************************************************************)
(* Specification SpecAccess: ConfigNode(data=D), then one read, or one     *)
(* write followed by a read of the written path or of a prefix of it.      *)
(***************************************************************************)
Prefixes(key) ==
    {Join(SubSeq(Split(key), 1, n)) : n \in 1..Len(Split(key))}

InitAccess ==
    \E d \in AccessTrees :
        LET ld == Load(DefaultArgs, d)
            c == Construct(ld.heap, ld.val, InitDefaults)
        IN  /\ c.err = "none"
            /\ heap = c.heap
            /\ data = c.val
            /\ defaults = InitDefaults
            /\ otherData = NoneV
            /\ held = <<ld.val>>
            /\ target = NoneV
            /\ source = NoneV
            /\ made = Value(DictO(<<>>))
            /\ hist = <<>>
            /\ pre = c.heap
            /\ pc = "ready"

AccessRead ==
    /\ pc = "ready"
    /\ GetItemAct(Paths(MaxPathLen) \cup {<<>>})
    /\ pc' = "done"

AccessWrite ==
    /\ pc = "ready"
    /\ SetItemAct(Paths(MaxPathLen), Vals)
    /\ pc' = "written"

AccessReadBack ==
    /\ pc = "written"
    /\ GetItemAct(Prefixes(Last.key))
    /\ pc' = "done"

NextAccess == AccessRead \/ AccessWrite \/ AccessReadBack

SpecAccess == InitAccess /\ [][NextAccess]_vars

(***************************************************************************)
(* Specification SpecMerge: update_dict(target, source) on two structures  *)
(* the caller builds.                                                      *)
(***************************************************************************)
MergeTrees ==
    {DictO(<<>>),
     DictO(<<Ent(Str("x"), IntV(1))>>),
     DictO(<<Ent(Str("x"), Hi)>>),
     DictO(<<Ent(Str("x"), DictO(<<>>))>>),
     DictO(<<Ent(Str("x"), ListO(<<IntV(1), IntV(2)>>))>>),
     DictO(<<Ent(Str("x"), DictO(<<Ent(Str("a"), IntV(1))>>))>>),
     DictO(<<Ent(Str("x"), DictO(<<Ent(Str("a"), IntV(1)), Ent(Str("b"), IntV(2))>>))>>),
     DictO(<<Ent(Str("x"), DictO(<<Ent(Str("a"), IntV(99)), Ent(Str("c"), IntV(3))>>))>>),
     DictO(<<Ent(Str("x"), DictO(<<Ent(Str("a"), DictO(<<Ent(Str("b"), IntV(1))>>))>>))>>),
     DictO(<<Ent(Str("x"), DictO(<<Ent(Str("a"), DictO(<<Ent(Str("c"), IntV(2))>>))>>)),
             Ent(Str("b"), IntV(3))>>),
     DictO(<<Ent(Str("b"), IntV(3)), Ent(Str("x"), NoneV)>>),
     DictO(<<Ent(Str("b"), DictO(<<Ent(Str("a"), IntV(1))>>)), Ent(Str("c"), IntV(5))>>)}

InitMerge ==
    \E tt \in MergeTrees, st \in MergeTrees :
        LET lt == Load(<<>>, tt)
            ls == Load(lt.heap, st)
        IN  /\ heap = ls.heap
            /\ target = lt.val
            /\ source = ls.val
            /\ data = NoneV
            /\ defaults = NoneV
            /\ otherData = NoneV
            /\ held = <<>>
            /\ made = NoneV
            /\ hist = <<>>
            /\ pre = ls.heap
            /\ pc = "ready"

Merge == pc = "ready" /\ MergeAct /\ pc' = "done"

NextMerge == Merge

SpecMerge == InitMerge /\ [][NextMerge]_vars

(***************************************************************************)
(* Specification SpecOptions: on an empty root, update(options=O) or       *)
(* update(data=N).                                                         *)
(***************************************************************************)
OptionLists ==
    {<<Ent(p, IntV(7))>> : p \in Paths(MaxPathLen)}
    \cup {<<Ent(pq[1], IntV(7)), Ent(pq[2], IntV(8))>> :
            pq \in {x \in Paths(MaxPathLen) \X Paths(MaxPathLen) : x[1] # x[2]}}

\* The nested mapping that holds v at the path segs, added to the literal tree.
RECURSIVE Insert(_, _, _)
Insert(tree, segs, v) ==
    LET k == StrV(Head(segs))
        under == IF DictHas(tree, k) /\ DictGet(tree, k).t = "dict"
                 THEN DictGet(tree, k) ELSE DictO(<<>>)
    IN  IF Len(segs) = 1 THEN DictPut(tree, k, v)
        ELSE DictPut(tree, k, Insert(under, Tail(segs), v))

RECURSIVE Nest(_)
Nest(opts) ==
    IF opts = <<>> THEN DictO(<<>>)
    ELSE Insert(Nest(SubSeq(opts, 1, Len(opts) - 1)),
                Split(opts[Len(opts)].k), opts[Len(opts)].v)

IsPrefix(s, t) == Len(s) <= Len(t) /\ SubSeq(t, 1, Len(s)) = s

\* Non-numeric segments, and no path a prefix of another.
Shorthand(opts) ==
    /\ \A i \in 1..Len(opts) : \A j \in 1..Len(Split(opts[i].k)) :
           ParseKey(Split(opts[i].k)[j]).t = "str"
    /\ \A i, j \in 1..Len(opts) :
           i # j => ~IsPrefix(Split(opts[i].k), Split(opts[j].k))

InitOptions ==
    LET c == Construct(DefaultArgs, InitData, InitDefaults)
    IN  /\ heap = c.heap
        /\ data = c.val
        /\ defaults = InitDefaults
        /\ otherData = NoneV
        /\ held = <<>>
        /\ target = NoneV
        /\ source = NoneV
        /\ made = Value(DictO(<<>>))
        /\ hist = <<>>
        /\ pre = c.heap
        /\ pc = "ready"

OptionsUpdate == pc = "ready" /\ UpdateOptionsAct(OptionLists) /\ pc' = "done"
NestedUpdate ==
    /\ pc = "ready"
    /\ UpdateDataAct({Nest(o) : o \in {x \in OptionLists : Shorthand(x)}})
    /\ pc' = "done"

NextOptions == OptionsUpdate \/ NestedUpdate

SpecOptions == InitOptions /\ [][NextOptions]_vars

(***************************************************************************)
(* Properties                                                              *)
(***************************************************************************)
Segments(key) == Split(key)
ProperPrefixes(key) ==
    {Join(SubSeq(Segments(key), 1, n)) : n \in 1..(Len(Segments(key)) - 1)}
Keys(c) == IF c.t = "dict" THEN DOMAIN c.m ELSE {}

\* What merging s into t0 must give: t1 has the keys of both; a key of t0
\* that s lacks keeps its value; a key of s holds s's value, except that
\* where both hold mappings the same is true one level down.
RECURSIVE MergedAs(_, _, _)
MergedAs(t0, s, t1) ==
    /\ t1.t = "dict"
    /\ Keys(t1) = Keys(t0) \cup Keys(s)
    /\ \A k \in Keys(t0) \ Keys(s) : t1.m[k] = t0.m[k]
    /\ \A k \in Keys(s) :
           IF k \in Keys(t0) /\ t0.m[k].t = "dict" /\ s.m[k].t = "dict"
           THEN MergedAs(t0.m[k], s.m[k], t1.m[k])
           ELSE t1.m[k] = s.m[k]

\* C1: a deep merge that completes keeps target's siblings, gives every key
\* of source source's value and adds the keys only source has, at every
\* level where both sides hold mappings.
C1_MergePreservesSiblings ==
    (pc = "done" /\ Last.op = "merge" /\ Last.err = "none")
        => MergedAs(Last.was, Snapshot(pre, source), Snapshot(heap, target))

\* C2: for every key k of source where target[k] and source[k] are not both
\* mappings, the merge completes without error and leaves target[k] equal to
\* source[k].
C2_MergeOverwritesWholesale ==
    (pc = "done" /\ Last.op = "merge") =>
        \A k \in Keys(Snapshot(pre, source)) :
            ~(k \in Keys(Last.was) /\ Last.was.m[k].t = "dict"
              /\ Snapshot(pre, source).m[k].t = "dict")
            => /\ Last.err = "none"
               /\ k \in Keys(Snapshot(heap, target))
               /\ Snapshot(heap, target).m[k] = Snapshot(pre, source).m[k]

\* C3: the stored defaults never change, and after reset() the root's tree
\* equals the defaults as they were at construction and is a copy that
\* shares nothing with them.
C3_ResetRestoresDefaults ==
    /\ Snapshot(heap, defaults) = made
    /\ (hist # <<>> /\ Last.op = "reset") =>
           /\ Snapshot(heap, data) = made
           /\ Reach(heap, data) \cap Reach(heap, defaults) = {}

\* A reset that undoes something: the tree had gained a key the defaults lack.
C3_Witness ==
    /\ Len(hist) >= 2
    /\ Last.op = "reset"
    /\ hist[Len(hist) - 1].op \in {"update", "options", "setitem", "view"}
    /\ hist[Len(hist) - 1].err = "none"
    /\ ~(Keys(Last.was) \subseteq Keys(made))
    /\ Snapshot(heap, data) = made

\* Walking D by hand along the segments: a segment names the entry of a
\* mapping stored under it, or, numeric, the element of a sequence.
RECURSIVE Walk(_, _)
Walk(d, segs) ==
    IF segs = <<>> THEN [found |-> TRUE, val |-> d]
    ELSE IF d.t = "dict" /\ StrV(Head(segs)) \in Keys(d)
    THEN Walk(d.m[StrV(Head(segs))], Tail(segs))
    ELSE IF d.t = "list" /\ ParseKey(Head(segs)).t = "int"
             /\ ParseKey(Head(segs)).n < Len(d.els)
    THEN Walk(d.els[ParseKey(Head(segs)).n + 1], Tail(segs))
    ELSE [found |-> FALSE, val |-> NoneV]

\* C4: a root built with data=D, read at a path present in D, resolves to
\* what walking D along the path gives.
C4_ReadRoundTrip ==
    (Len(hist) = 1 /\ Last.op = "getitem" /\ Last.key # <<>>
     /\ Walk(Last.was, Segments(Last.key)).found)
        => /\ Last.err = "none"
           /\ Snapshot(heap, Last.res.val) = Walk(Last.was, Segments(Last.key)).val

\* No prefix of the path exists: its first segment is no key of the root.
NoPrefixExists(tree, key) ==
    /\ StrV(Head(Segments(key))) \notin Keys(tree)
    /\ ParseKey(Head(Segments(key))) \notin Keys(tree)

\* C5: a write to a path of which no prefix exists succeeds, leaves a mapping
\* at every proper prefix and the value at the path; reading the path then
\* returns the value, and reading a proper prefix returns a view of a mapping.
C5_AutoVivification ==
    (hist # <<>> /\ hist[1].op = "setitem"
     /\ NoPrefixExists(hist[1].was, hist[1].key)) =>
        /\ hist[1].err = "none"
        /\ Len(hist) = 1 =>
               /\ \A q \in ProperPrefixes(hist[1].key) :
                      /\ IsDict(heap, GetValue(heap, data, FALSE, q).val)
                      /\ GetItem(heap, data, q).kind = "view"
               /\ Snapshot(heap, GetValue(heap, data, FALSE, hist[1].key).val)
                      = Snapshot(heap, hist[1].arg)
        /\ Len(hist) = 2 =>
               /\ hist[2].err = "none"
               /\ IF hist[2].key = hist[1].key
                  THEN /\ Snapshot(heap, hist[2].res.val) = Snapshot(heap, hist[1].arg)
                       /\ hist[1].arg.t = "int" => hist[2].res = [kind |-> "value", val |-> hist[1].arg]
                  ELSE /\ hist[2].res.kind = "view"
                       /\ IsDict(heap, hist[2].res.val)

\* A three-segment write into nothing, read back at a proper prefix.
C5_Witness ==
    /\ Len(hist) = 2
    /\ hist[1].op = "setitem"
    /\ NoPrefixExists(hist[1].was, hist[1].key)
    /\ Len(Segments(hist[1].key)) >= 3
    /\ hist[1].arg = IntV(7)
    /\ hist[2].key \in ProperPrefixes(hist[1].key)
    /\ hist[2].res.kind = "view"

\* The entries of a mapping a segment can name: the one stored under the
\* segment as a string and the one stored under it as an integer.
Named(d, seg) == {StrV(seg), ParseKey(seg)} \cap Keys(d)

\* Some segment does not resolve: a key missing from a mapping, or an index
\* out of the range of a sequence, met while every segment before resolves,
\* whichever entry a segment is taken to name.
RECURSIVE Missing(_, _)
Missing(d, segs) ==
    IF segs = <<>> THEN FALSE
    ELSE IF d.t = "dict" THEN
        /\ \A k \in Named(d, Head(segs)) : Missing(d.m[k], Tail(segs))
    ELSE IF d.t = "list" /\ ParseKey(Head(segs)).t = "int" THEN
        IF ParseKey(Head(segs)).n < Len(d.els)
        THEN Missing(d.els[ParseKey(Head(segs)).n + 1], Tail(segs))
        ELSE TRUE
    ELSE FALSE

\* C6: a bracket read of a path with a segment that does not resolve raises
\* nothing and returns a view whose value is None.
C6_MissingReadYieldsAbsent ==
    \A i \in 1..Len(hist) :
        (hist[i].op = "getitem" /\ hist[i].key # <<>>
         /\ Missing(hist[i].was, Segments(hist[i].key)))
            => /\ hist[i].err = "none"
               /\ hist[i].res = [kind |-> "view", val |-> NoneV]

\* A read that finds its first segment and misses a later one; one that
\* runs off the end of a sequence.
C6_Witness ==
    /\ Len(hist) = 1
    /\ Last.op = "getitem"
    /\ Len(Segments(Last.key)) >= 2
    /\ ~Missing(Last.was, <<Head(Segments(Last.key))>>)
    /\ Missing(Last.was, Segments(Last.key))
    /\ Last.res = [kind |-> "view", val |-> NoneV]

\* The tree after update(data=N) on the root as it is in heap h, N the nested
\* mapping for the options.
AfterNested(h, opts) ==
    LET l == Load(h, Nest(opts))
        u == Update(l.heap, data, l.val, <<>>)
    IN  Snapshot(u.heap, data)

\* C7: on an empty root, update(options=O), O's paths of non-numeric
\* segments and none a prefix of another, gives the tree update(data=N)
\* gives, N the nested mapping holding each value at its path.
C7_OptionsShorthand ==
    (pc = "done" /\ Last.op = "options" /\ Shorthand(Last.opts)) =>
        /\ Last.err = "none"
        /\ Snapshot(heap, data) = AfterNested(pre, Last.opts)
        /\ Snapshot(heap, data) = Value(Nest(Last.opts))

\* Two options under one first segment.
C7_Witness ==
    /\ pc = "done"
    /\ Last.op = "options"
    /\ Shorthand(Last.opts)
    /\ Len(Last.opts) = 2
    /\ Head(Segments(Last.opts[1].k)) = Head(Segments(Last.opts[2].k))
    /\ Len(Segments(Last.opts[1].k)) >= 2

\* A proper prefix of the path resolves to an existing scalar value.
ThroughScalar(tree, key) ==
    \E q \in ProperPrefixes(key) :
        /\ Walk(tree, Segments(q)).found
        /\ Walk(tree, Segments(q)).val.t \in {"int", "str"}

\* C8: a write through a scalar raises and leaves the tree as it was.
C8_WriteThroughScalarFails ==
    (hist # <<>> /\ Last.op = "setitem" /\ ThroughScalar(Last.was, Last.key)) =>
        /\ Last.err # "none"
        /\ Snapshot(heap, data) = Last.was

\* The walk of a write meets a sequence of length L at an integer segment
\* greater than L.
RECURSIVE MeetsShortList(_, _)
MeetsShortList(d, segs) ==
    IF segs = <<>> THEN FALSE
    ELSE IF d.t = "dict" THEN
        IF StrV(Head(segs)) \in Keys(d)
        THEN MeetsShortList(d.m[StrV(Head(segs))], Tail(segs))
        ELSE IF ParseKey(Head(segs)) \in Keys(d)
        THEN MeetsShortList(d.m[ParseKey(Head(segs))], Tail(segs))
        ELSE FALSE
    ELSE IF d.t = "list" /\ ParseKey(Head(segs)).t = "int" THEN
        IF ParseKey(Head(segs)).n > Len(d.els) THEN TRUE
        ELSE IF ParseKey(Head(segs)).n < Len(d.els)
        THEN MeetsShortList(d.els[ParseKey(Head(segs)).n + 1], Tail(segs))
        ELSE FALSE
    ELSE FALSE

\* C9: such a write succeeds, and a read of the path returns the value.
C9_SequenceExtension ==
    (Len(hist) = 1 /\ Last.op = "setitem"
     /\ MeetsShortList(Last.was, Segments(Last.key))) =>
        /\ Last.err = "none"
        /\ Snapshot(heap, GetValue(heap, data, FALSE, Last.key).val)
               = Snapshot(heap, Last.arg)

\* C10: a write through the root changes neither a structure the caller
\* passed as data nor the tree of the other root.
C10_ExclusiveOwnership ==
    (hist # <<>> /\ Last.op = "setitem") =>
        /\ \A i \in 1..Len(held) :
               Snapshot(heap, held[i]) = Snapshot(pre, held[i])
        /\ Snapshot(heap, otherData) = Snapshot(pre, otherData)

====
